---- MODULE Spec2Model ----
(***************************************************************************)
(* A model of go-gg's group tree (table/group.go), its regrouping          *)
(* operations GroupBy / Ungroup / Flatten / concatRows, and the facet      *)
(* layout of gg/facet.go that is built on them.                            *)
(*                                                                         *)
(* Pointer identity is modelled by arenas: a GroupID is an index into      *)
(* `nodes` (0 is RootGroupID), a *subplot an index into `subplots`         *)
(* (0 is rootSubplot), a *subplotBand an index into `bands` (0 is nil) and *)
(* a Scaler an index into the scale objects 1..nscales.                    *)
(***************************************************************************)
EXTENDS Integers, Sequences, FiniteSets, Bags, TLC

\* Rows of the initial table, operations per behaviour, tree nodes.
MaxRows == 3
MaxOps == 3
MaxNodes == 4
MaxFacets == 2
MaxFacetRows == 4

\* Values of column "a" (an orderable type) and of column "b" (a type that
\* generic.CanOrderR rejects, e.g. bool).
AVals == {1, 2, 3}
BVals == {1, 2}

VARIABLES
    nodes,      \* the groupNode arena: nodes[i] = [parent, label]
    ret,        \* the GroupID the last Extend returned
    T0,         \* the table the behaviour started from
    grouping,   \* the current Grouping: a sequence of [gid, tab]
    prev,       \* the Grouping the last operation was applied to
    prevN,      \* Len(nodes) before the last operation
    hist,       \* the operations applied so far
    flat,       \* the Table the last Flatten returned
    subplots,   \* the subplot arena: [parent, x, y, vBand, hBand]
    bands,      \* the subplotBand arena: [parent, label]
    scaleObjs,  \* the Scaler objects: scaleObjs[s] is the Scaler s was cloned
                \* from (0 for a Scaler that is no clone)
    scales,     \* the Plot's scales: a set of [axis, gid, scale]
    facets,     \* the facet operations applied so far
    grouped,    \* table.GroupBy(p.Data(), f.Col) of the last facet operation
    pre         \* the Plot before the last facet operation

fvars == <<subplots, bands, scaleObjs, scales, facets, grouped, pre>>

vars == <<nodes, ret, T0, grouping, prev, prevN, hist, flat, fvars>>

----------------------------------------------------------------------------
(* Group identity tree                                                     *)

RootGroupID == 0

NilLabel == [k |-> "nil", v |-> 0]
ValLabel(x) == [k |-> "val", v |-> x]
SubLabel(s) == [k |-> "sub", v |-> s]

\* A buggy Extend that interns nodes: an equal (parent, label) pair yields
\* the existing node instead of a fresh allocation.
ExtendInterned(nds, g, label) ==
    LET same == {i \in 1..Len(nds) : nds[i] = [parent |-> g, label |-> label]}
    IN  IF same = {}
        THEN [nodes |-> Append(nds, [parent |-> g, label |-> label]),
              gid |-> Len(nds) + 1]
        ELSE [nodes |-> nds, gid |-> CHOOSE i \in same : TRUE]

\* g.Extend(label): always a new allocation.
Extend(nds, g, label) ==
    [nodes |-> Append(nds, [parent |-> g, label |-> label]),
     gid |-> Len(nds) + 1]

Parent(nds, g) == IF g = RootGroupID THEN RootGroupID ELSE nds[g].parent

Label(nds, g) == IF g = RootGroupID THEN NilLabel ELSE nds[g].label

----------------------------------------------------------------------------
(* Tables: a sequence of columns in column order; a column is a constant   *)
(* or a sequence of per-row values.                                        *)

ConstCol(name, x) == [name |-> name, const |-> TRUE, val |-> x, seq |-> <<>>]
SeqCol(name, s) == [name |-> name, const |-> FALSE, val |-> 0, seq |-> s]

EmptyTable == <<>>

Columns(t) == [k \in 1..Len(t) |-> t[k].name]

ColOf(t, name) == t[CHOOSE k \in 1..Len(t) : t[k].name = name]

\* Number of rows: the length of the table's ordinary columns.
TableLen(t) ==
    LET s == {k \in 1..Len(t) : ~t[k].const}
    IN  IF s = {} THEN 0 ELSE Len(t[CHOOSE k \in s : TRUE].seq)

\* t.Column(name): a constant is expanded to one value per row.
Column(t, name) ==
    LET c == ColOf(t, name)
    IN  IF c.const THEN [i \in 1..TableLen(t) |-> c.val] ELSE c.seq

\* generic.MultiIndex: gather the values at the given indices, in order.
MultiIndex(s, rows) == [k \in 1..Len(rows) |-> s[rows[k]]]

RECURSIVE Concat(_)
\* generic.Concat
Concat(seqs) == IF seqs = <<>> THEN <<>> ELSE Head(seqs) \o Concat(Tail(seqs))

\* The logical rows of a table: row i as the tuple of its column values.
Rows(t) == [i \in 1..TableLen(t) |-> [k \in 1..Len(t) |-> Column(t, t[k].name)[i]]]

----------------------------------------------------------------------------
(* GroupingBuilder                                                         *)

\* out.Add(gid, t): a new GroupID is appended in insertion order; a GroupID
\* already in the Grouping keeps its place and has its Table replaced
\* (GroupIDs are distinct within a Grouping).
GBAdd(g, gid, t) ==
    LET hit == {j \in 1..Len(g) : g[j].gid = gid}
    IN  IF hit = {}
        THEN Append(g, [gid |-> gid, tab |-> t])
        ELSE [g EXCEPT ![CHOOSE j \in hit : TRUE].tab = t]

----------------------------------------------------------------------------
(* GroupBy                                                                 *)

RECURSIVE InsertByVal(_, _)
InsertByVal(subgroups, sg) ==
    IF subgroups = <<>> THEN <<sg>>
    ELSE IF sg.val < Head(subgroups).val THEN <<sg>> \o subgroups
    ELSE <<Head(subgroups)>> \o InsertByVal(Tail(subgroups), sg)

RECURSIVE IndexRowsSorted(_, _, _, _, _)
\* A buggy index that keeps the subgroups in value order.
IndexRowsSorted(seq, i, gid, nds, subgroups) ==
    IF i > Len(seq) THEN [nodes |-> nds, subgroups |-> subgroups]
    ELSE LET x == seq[i]
             hit == {j \in 1..Len(subgroups) : subgroups[j].val = x}
         IN  IF hit = {}
             THEN LET e == Extend(nds, gid, ValLabel(x))
                  IN  IndexRowsSorted(seq, i + 1, gid, e.nodes,
                          InsertByVal(subgroups,
                              [gid |-> e.gid, val |-> x, rows |-> <<i>>]))
             ELSE IndexRowsSorted(seq, i + 1, gid, nds,
                      [subgroups EXCEPT ![CHOOSE j \in hit : TRUE].rows = Append(@, i)])

RECURSIVE IndexRowsLoop(_, _, _, _, _)
IndexRowsLoop(seq, i, gid, nds, subgroups) ==
    IF i > Len(seq) THEN [nodes |-> nds, subgroups |-> subgroups]
    ELSE LET x == seq[i]
             hit == {j \in 1..Len(subgroups) : subgroups[j].val = x}
         IN  IF hit = {}
             THEN LET e == Extend(nds, gid, ValLabel(x))
                  IN  IndexRowsLoop(seq, i + 1, gid, e.nodes,
                          Append(subgroups,
                              [gid |-> e.gid, val |-> x, rows |-> <<i>>]))
             ELSE IndexRowsLoop(seq, i + 1, gid, nds,
                      [subgroups EXCEPT ![CHOOSE j \in hit : TRUE].rows = Append(@, i)])

\* "Create an index on c": subgroups[j] = [gid, val, rows] holds the
\* subgroupInfo list together with gidkey (val -> gid) and rowsMap
\* (gid -> row indices).
IndexRows(seq, i, gid, nds, subgroups) ==
    IndexRowsLoop(seq, i, gid, nds, subgroups)

\* A buggy split that gathers a subgroup's rows in reverse.
SubTableReversed(t, col, sg) ==
    LET n == Len(sg.rows)
        rev == [k \in 1..n |-> sg.rows[n + 1 - k]]
    IN  [k \in 1..Len(t) |->
            IF t[k].name = col THEN ConstCol(t[k].name, sg.val)
            ELSE IF t[k].const THEN t[k]
            ELSE SeqCol(t[k].name, MultiIndex(t[k].seq, rev))]

\* "Construct this new group".
SubTable(t, col, sg) ==
    [k \in 1..Len(t) |->
        IF t[k].name = col THEN ConstCol(t[k].name, sg.val)
        ELSE IF t[k].const THEN t[k]
        ELSE SeqCol(t[k].name, MultiIndex(t[k].seq, sg.rows))]

RECURSIVE AddSubgroups(_, _, _, _, _)
\* "Split this group in all columns".
AddSubgroups(t, col, subgroups, j, out) ==
    IF j > Len(subgroups) THEN out
    ELSE AddSubgroups(t, col, subgroups, j + 1,
             GBAdd(out, subgroups[j].gid, SubTable(t, col, subgroups[j])))

RECURSIVE GroupByLoop(_, _, _, _, _)
\* The loop over g.Tables() for the first column name.
GroupByLoop(nds, g, col, i, out) ==
    IF i > Len(g) THEN [nodes |-> nds, g |-> out]
    ELSE LET gid == g[i].gid
             t == g[i].tab
             c == ColOf(t, col)
         IN  IF c.const
             THEN LET e == Extend(nds, gid, ValLabel(c.val))
                  IN  GroupByLoop(e.nodes, g, col, i + 1, GBAdd(out, e.gid, t))
             ELSE LET ix == IndexRows(c.seq, 1, gid, nds, <<>>)
                  IN  GroupByLoop(ix.nodes, g, col, i + 1,
                          AddSubgroups(t, col, ix.subgroups, 1, out))

\* A buggy GroupBy that forgets the remaining column names.
GroupByFirstOnly(nds, g, cols) ==
    IF cols = <<>> THEN [nodes |-> nds, g |-> g]
    ELSE GroupByLoop(nds, g, Head(cols), 1, <<>>)

RECURSIVE GroupByRec(_, _, _)
GroupByRec(nds, g, cols) ==
    IF cols = <<>> THEN [nodes |-> nds, g |-> g]
    ELSE LET r == GroupByLoop(nds, g, Head(cols), 1, <<>>)
         IN  GroupByRec(r.nodes, r.g, Tail(cols))

GroupBy(nds, g, cols) == GroupByRec(nds, g, cols)

----------------------------------------------------------------------------
(* concatRows, Ungroup, Flatten                                            *)

\* A buggy concatRows that leaves out the last table.
ConcatRowsDropLast(tabs) ==
    IF Len(tabs) = 0 THEN EmptyTable
    ELSE IF Len(tabs) = 1 THEN tabs[1]
    ELSE [k \in 1..Len(tabs[1]) |->
             SeqCol(tabs[1][k].name,
                 Concat([j \in 1..Len(tabs) - 1 |-> Column(tabs[j], tabs[1][k].name)]))]

concatRows(tabs) ==
    IF Len(tabs) = 0 THEN EmptyTable
    ELSE IF Len(tabs) = 1 THEN tabs[1]
    ELSE [k \in 1..Len(tabs[1]) |->
             SeqCol(tabs[1][k].name,
                 Concat([j \in 1..Len(tabs) |-> Column(tabs[j], tabs[1][k].name)]))]

RECURSIVE UngroupLoop(_, _, _, _, _, _)
UngroupLoop(nds, g, i, out, runGid, runTabs) ==
    IF i > Len(g) THEN GBAdd(out, runGid, concatRows(runTabs))
    ELSE LET p == Parent(nds, g[i].gid)
         IN  IF p # runGid
             THEN UngroupLoop(nds, g, i + 1,
                      GBAdd(out, runGid, concatRows(runTabs)), p, <<g[i].tab>>)
             ELSE UngroupLoop(nds, g, i + 1, out, runGid, Append(runTabs, g[i].tab))

Ungroup(nds, g) ==
    IF Len(g) = 0 \/ (Len(g) = 1 /\ g[1].gid = RootGroupID) THEN g
    ELSE UngroupLoop(nds, g, 1, <<>>, Parent(nds, g[1].gid), <<>>)

\* A buggy Flatten that applies the one-group shortcut to every Grouping.
FlattenFirstOnly(g) ==
    IF Len(g) = 0 THEN EmptyTable ELSE g[1].tab

Flatten(g) ==
    IF Len(g) = 0 THEN EmptyTable
    ELSE IF Len(g) = 1 THEN g[1].tab
    ELSE concatRows([i \in 1..Len(g) |-> g[i].tab])

----------------------------------------------------------------------------
(* Tables and operations of the grouping specification                     *)

\* Column values of the grouping specification.
GVals == {1, 2}

RowIds(n) == [i \in 1..n |-> i]

ColChoices(name, n, vals) ==
    {ConstCol(name, x) : x \in vals} \cup {SeqCol(name, s) : s \in [1..n -> vals]}

\* Tables of columns a, b, v with at most MaxRows rows; v is never constant.
Tables ==
    UNION {{<<ca, cb, SeqCol("v", sv)>> :
               ca \in ColChoices("a", n, GVals), cb \in ColChoices("b", n, GVals),
               sv \in {RowIds(n), [i \in 1..n |-> 1]}} :
           n \in 0..MaxRows}

RootGrouping(t) == <<[gid |-> RootGroupID, tab |-> t]>>

\* The Plot before any facet operation: no subplot but rootSubplot, no band,
\* one Scaler for x (1) and one for y (2), both set at RootGroupID.
FacetIdle ==
    /\ subplots = <<>>
    /\ bands = <<>>
    /\ scaleObjs = <<0, 0>>
    /\ scales = {[axis |-> "x", gid |-> RootGroupID, scale |-> 1],
                 [axis |-> "y", gid |-> RootGroupID, scale |-> 2]}
    /\ facets = <<>>
    /\ grouped = <<>>
    /\ pre = <<>>

Idle ==
    /\ nodes = <<>>
    /\ ret = RootGroupID
    /\ T0 = EmptyTable
    /\ grouping = <<>>
    /\ prev = <<>>
    /\ prevN = 0
    /\ hist = <<>>
    /\ flat = EmptyTable
    /\ FacetIdle

ColsOf(op) ==
    CASE op = "Ga" -> <<"a">>
      [] op = "Gb" -> <<"b">>
      [] op = "Gab" -> <<"a", "b">>

GroupOps == {"Ga", "Gb", "Gab"}

Init ==
    /\ nodes = <<>>
    /\ ret = RootGroupID
    /\ T0 \in Tables
    /\ grouping = RootGrouping(T0)
    /\ prev = <<>>
    /\ prevN = 0
    /\ hist = <<>>
    /\ flat = EmptyTable
    /\ FacetIdle

\* One more operation of the pipeline; Flatten, which returns a Table and no
\* Grouping, ends it.
Step(op) ==
    /\ Len(hist) < MaxOps
    /\ IF hist = <<>> THEN TRUE ELSE hist[Len(hist)] # "F"
    /\ hist' = Append(hist, op)
    /\ prev' = grouping
    /\ prevN' = Len(nodes)
    /\ UNCHANGED <<T0, ret, fvars>>

DoGroupBy(op) ==
    /\ Step(op)
    /\ LET r == GroupBy(nodes, grouping, ColsOf(op))
       IN  /\ nodes' = r.nodes
           /\ grouping' = r.g
    /\ UNCHANGED flat

DoUngroup ==
    /\ Step("U")
    /\ grouping' = Ungroup(nodes, grouping)
    /\ UNCHANGED <<nodes, flat>>

DoFlatten ==
    /\ Step("F")
    /\ flat' = Flatten(grouping)
    /\ UNCHANGED <<nodes, grouping>>

\* A caller rebuilds the Grouping with two neighbouring groups exchanged
\* (a Grouping's iteration order is its insertion order).
DoReorder ==
    /\ Step("R")
    /\ \E i \in 1..(Len(grouping) - 1) :
          grouping' = [grouping EXCEPT ![i] = grouping[i + 1], ![i + 1] = grouping[i]]
    /\ UNCHANGED <<nodes, flat>>

Next ==
    \/ \E op \in GroupOps : DoGroupBy(op)
    \/ DoUngroup
    \/ DoFlatten
    \/ DoReorder

Spec == Init /\ [][Next]_vars

----------------------------------------------------------------------------
(* Helpers of the properties                                               *)

Last(s) == s[Len(s)]

Range(s) == {s[i] : i \in 1..Len(s)}

SeqToBag(s) == [x \in Range(s) |-> Cardinality({i \in 1..Len(s) : s[i] = x})]

\* The k-th smallest element of a finite set of integers.
Kth(S, k) == CHOOSE i \in S : Cardinality({j \in S : j < i}) = k - 1

\* The distinct values of s in the order of their first occurrence.
FirstOcc(s) ==
    LET P == {i \in 1..Len(s) : \A j \in 1..(i - 1) : s[j] # s[i]}
    IN  [k \in 1..Cardinality(P) |-> s[Kth(P, k)]]

\* The rows of t stably partitioned by column c: by first occurrence of the
\* row's value of c, then by row index.
StablePartition(t, c) ==
    LET s == Column(t, c)
        n == Len(s)
        first(i) == CHOOSE j \in 1..n : s[j] = s[i] /\ \A k \in 1..(j - 1) : s[k] # s[i]
        before(j, i) == first(j) < first(i) \/ (first(j) = first(i) /\ j < i)
        rank(i) == Cardinality({j \in 1..n : before(j, i)}) + 1
    IN  [r \in 1..n |-> Rows(t)[CHOOSE i \in 1..n : rank(i) = r]]

\* Equal values of s stand next to each other.
Contiguous(s) ==
    \A i, j \in 1..Len(s) :
        (i < j /\ s[i] = s[j]) => \A k \in i..j : s[k] = s[i]

\* sub is an order-preserving sub-sequence of full.
IsSubsequence(sub, full) ==
    \E f \in [1..Len(sub) -> 1..Len(full)] :
        /\ \A k \in 1..Len(sub) : sub[k] = full[f[k]]
        /\ \A k \in 1..(Len(sub) - 1) : f[k] < f[k + 1]

RECURSIVE Depth(_, _)
Depth(nds, g) == IF g = RootGroupID THEN 0 ELSE 1 + Depth(nds, Parent(nds, g))

RECURSIVE Path(_, _)
\* The labels from the root down to g.
Path(nds, g) ==
    IF g = RootGroupID THEN <<>> ELSE Append(Path(nds, Parent(nds, g)), Label(nds, g).v)

OnlyRoot(g) == Len(g) = 1 /\ g[1].gid = RootGroupID

RECURSIVE UngroupAll(_, _, _)
\* Ungroup applied until only the root group remains (at most n times).
UngroupAll(nds, g, n) ==
    IF OnlyRoot(g) \/ n = 0 THEN g ELSE UngroupAll(nds, Ungroup(nds, g), n - 1)

RunsContiguous(nds, g) ==
    Contiguous([i \in 1..Len(g) |-> Parent(nds, g[i].gid)])

RECURSIVE ContiguousAtEveryLevel(_, _, _)
\* Same-parent groups stand next to each other in g and in every Grouping
\* the repeated Ungroup passes through.
ContiguousAtEveryLevel(nds, g, n) ==
    IF OnlyRoot(g) \/ n = 0 THEN TRUE
    ELSE RunsContiguous(nds, g) /\ ContiguousAtEveryLevel(nds, Ungroup(nds, g), n - 1)

MaxDepth(nds, g) ==
    IF g = <<>> THEN 0
    ELSE CHOOSE d \in 0..Len(nds) :
            /\ \E i \in 1..Len(g) : Depth(nds, g[i].gid) = d
            /\ \A i \in 1..Len(g) : Depth(nds, g[i].gid) <= d

OneColOp == hist \in {<<"Ga">>, <<"Gb">>}
LastCol == IF Last(hist) = "Ga" THEN "a" ELSE "b"

----------------------------------------------------------------------------
(* Properties of GroupBy, Ungroup and Flatten                              *)

AfterGroupUngroup == hist \in {<<"Ga", "U">>, <<"Gb", "U">>}
GroupedCol == IF hist[1] = "Ga" THEN "a" ELSE "b"

\* C1 as stated, for tables of at least one row: Ungroup(GroupBy(T, c)) is a
\* single root group whose table has T's columns and T's rows in T's order.
C1_Original ==
    (AfterGroupUngroup /\ TableLen(T0) > 0) =>
        /\ OnlyRoot(grouping)
        /\ Columns(grouping[1].tab) = Columns(T0)
        /\ Rows(grouping[1].tab) = Rows(T0)

\* C1 amended: for a table T with at least one row (or a constant c),
\* Ungroup(GroupBy(T, c)) is a single root group whose table has T's columns
\* and T's rows stably partitioned by c (values of c in first-occurrence
\* order, T's order within a value); it has T's row order exactly when equal
\* values of c are contiguous in T.  For a T with no rows and a non-constant
\* c the result has no group at all.
C1_Amended ==
    AfterGroupUngroup =>
        IF TableLen(T0) = 0 /\ ~ColOf(T0, GroupedCol).const
        THEN grouping = <<>>
        ELSE /\ OnlyRoot(grouping)
             /\ Columns(grouping[1].tab) = Columns(T0)
             /\ Rows(grouping[1].tab) = StablePartition(T0, GroupedCol)
             /\ (Rows(grouping[1].tab) = Rows(T0)) <=> Contiguous(Column(T0, GroupedCol))

C1_Witness ==
    /\ AfterGroupUngroup
    /\ OnlyRoot(grouping)
    /\ TableLen(T0) = 3
    /\ Len(prev) = 2
    /\ ~Contiguous(Column(T0, GroupedCol))
    /\ Rows(grouping[1].tab) # Rows(T0)

\* C2: Flatten(GroupBy(T, c)) has the multiset of rows of T; every group of
\* GroupBy(T, c) holds an order-preserving sub-sequence of T's rows, all with
\* one value of c.
C2_FlattenGroupBy ==
    /\ OneColOp =>
          \A i \in 1..Len(grouping) :
              /\ IsSubsequence(Rows(grouping[i].tab), Rows(T0))
              /\ Cardinality(Range(Column(grouping[i].tab, LastCol))) <= 1
    /\ hist \in {<<"Ga", "F">>, <<"Gb", "F">>} =>
          SeqToBag(Rows(flat)) = SeqToBag(Rows(T0))

C2_Witness ==
    /\ hist \in {<<"Ga", "F">>, <<"Gb", "F">>}
    /\ Len(grouping) = 2
    /\ TableLen(grouping[1].tab) = 2
    /\ Rows(flat) # Rows(T0)
    /\ \E i, j \in 1..Len(Rows(T0)) : i # j /\ Rows(T0)[i] = Rows(T0)[j]

Partitions(g) ==
    {[a |-> ColOf(g[i].tab, "a").val, b |-> ColOf(g[i].tab, "b").val,
      rows |-> Rows(g[i].tab)] : i \in 1..Len(g)}

Direct == GroupBy(<<>>, RootGrouping(T0), <<"a", "b">>)

\* C4 as stated: GroupBy(GroupBy(T, a), b) has the partitions of
\* GroupBy(T, a, b), and its GroupID paths are one level deeper.
C4_Original ==
    hist = <<"Ga", "Gb">> =>
        /\ Partitions(grouping) = Partitions(Direct.g)
        /\ Len(grouping) = Len(Direct.g)
        /\ \A i \in 1..Len(grouping) :
              Depth(nodes, grouping[i].gid) = Depth(Direct.nodes, Direct.g[i].gid) + 1

\* C4 amended: GroupBy(GroupBy(T, a), b) has the partitions of
\* GroupBy(T, a, b), in the same order, and its GroupID paths are the same
\* too: /<value of a>/<value of b>, two levels in both results.
C4_Amended ==
    hist = <<"Ga", "Gb">> =>
        /\ Partitions(grouping) = Partitions(Direct.g)
        /\ Len(grouping) = Len(Direct.g)
        /\ \A i \in 1..Len(grouping) :
              /\ grouping[i].tab = Direct.g[i].tab
              /\ Path(nodes, grouping[i].gid) = Path(Direct.nodes, Direct.g[i].gid)
              /\ Path(nodes, grouping[i].gid) =
                     <<ColOf(grouping[i].tab, "a").val, ColOf(grouping[i].tab, "b").val>>

C4_Witness ==
    /\ hist = <<"Ga", "Gb">>
    /\ Len(grouping) = 3
    /\ Cardinality({ColOf(grouping[i].tab, "a").val : i \in 1..Len(grouping)}) = 2
    /\ Cardinality({ColOf(grouping[i].tab, "b").val : i \in 1..Len(grouping)}) = 2
    /\ \A i \in 1..Len(grouping) : Depth(nodes, grouping[i].gid) = 2

\* The (parent, label) pairs GroupBy on column c is to emit for grouping g:
\* per input group, in input order, one per distinct value in first-occurrence
\* order (one for the constant, when c is constant in the group).
Emitted(g, c) ==
    Concat([i \in 1..Len(g) |->
        LET col == ColOf(g[i].tab, c)
            vs == IF col.const THEN <<col.val>> ELSE FirstOcc(col.seq)
        IN  [k \in 1..Len(vs) |-> [parent |-> g[i].gid, val |-> vs[k]]]])

\* C8: GroupBy on one column emits, per input group in input order, one
\* fresh child per distinct value in first-occurrence order, the children of
\* one input group contiguous, each labelled with its value, all distinct.
C8_EmissionOrder ==
    (hist # <<>> /\ Last(hist) \in {"Ga", "Gb"}) =>
        LET exp == Emitted(prev, LastCol)
        IN  /\ Len(grouping) = Len(exp)
            /\ \A k \in 1..Len(grouping) :
                  /\ Parent(nodes, grouping[k].gid) = exp[k].parent
                  /\ Label(nodes, grouping[k].gid) = ValLabel(exp[k].val)
                  /\ grouping[k].gid > prevN
                  /\ \A j \in 1..Len(grouping) :
                        j # k => grouping[j].gid # grouping[k].gid
            /\ Len(nodes) = prevN + Len(exp)

C8_Witness ==
    /\ hist = <<"Ga", "Gb">>
    /\ Len(prev) = 2
    /\ ~ColOf(prev[1].tab, "b").const
    /\ Len(grouping) = 3
    /\ Label(nodes, grouping[1].gid) = ValLabel(2)
    /\ Label(nodes, grouping[2].gid) = ValLabel(1)
    /\ Parent(nodes, grouping[1].gid) = Parent(nodes, grouping[2].gid)

----------------------------------------------------------------------------
(* The group tree under arbitrary Extend calls                             *)

TreeLabels == {ValLabel(1), ValLabel(2)}

TreeInit == Idle

\* Any existing GroupID is extended with any label.
DoExtend ==
    /\ Len(nodes) < MaxNodes
    /\ \E g \in 0..Len(nodes), l \in TreeLabels :
          LET e == Extend(nodes, g, l)
          IN  /\ nodes' = e.nodes
              /\ ret' = e.gid
    /\ UNCHANGED <<T0, grouping, prev, prevN, hist, flat, fvars>>

TreeNext == DoExtend

SpecTree == TreeInit /\ [][TreeNext]_vars

RECURSIVE ReachesRoot(_, _, _)
\* Parent applied at most n times to g arrives at RootGroupID.
ReachesRoot(nds, g, n) ==
    IF g = RootGroupID THEN TRUE
    ELSE IF n = 0 THEN FALSE
    ELSE ReachesRoot(nds, Parent(nds, g), n - 1)

TreeInv ==
    /\ Parent(nodes, RootGroupID) = RootGroupID
    /\ ret \in 0..Len(nodes)
    /\ \A g \in 0..Len(nodes) : ReachesRoot(nodes, g, Len(nodes))

ExtendFresh ==
    /\ ret' \notin 0..Len(nodes)
    /\ ret' \in 1..Len(nodes')
    /\ \A i \in 1..Len(nodes) : nodes'[i] = nodes[i]

\* C5: under any sequence of Extend calls the tree is acyclic and
\* append-only: Extend returns a node unequal to every GroupID that existed
\* (RootGroupID included), no existing node's parent or label changes,
\* Parent(RootGroupID) = RootGroupID, and repeated Parent reaches RootGroupID
\* from every node.
C5_TreeAppendOnly == []TreeInv /\ [][ExtendFresh]_vars

C5_Witness ==
    /\ Len(nodes) = 3
    /\ ret = 3
    /\ nodes[2] = nodes[3]
    /\ nodes[2].parent = 1

----------------------------------------------------------------------------
(* Facet layout (gg/facet.go)                                              *)

rootSubplot == 0
NilBand == 0

\* The subplot a *subplot points to; rootSubplot is &subplot{}.
Sub(subs, s) ==
    IF s = rootSubplot
    THEN [parent |-> -1, x |-> 0, y |-> 0, vBand |-> NilBand, hBand |-> NilBand]
    ELSE subs[s]

RECURSIVE subplotOf(_, _)
subplotOf(nds, gid) ==
    IF gid = RootGroupID THEN rootSubplot
    ELSE IF Label(nds, gid).k = "sub" THEN Label(nds, gid).v
    ELSE subplotOf(nds, Parent(nds, gid))

RECURSIVE GetScale(_, _, _, _)
\* p.GetScale(axis, gid): the Scaler set at gid or at its nearest ancestor
\* (one is always set at RootGroupID).
GetScale(scs, nds, axis, gid) ==
    LET hit == {e \in scs : e.axis = axis /\ e.gid = gid}
    IN  IF hit # {} THEN (CHOOSE e \in hit : TRUE).scale
        ELSE GetScale(scs, nds, axis, Parent(nds, gid))

\* p.SetScaleAt(axis, scaler, gid)
SetScaleAt(scs, axis, scaler, gid) ==
    {e \in scs : ~(e.axis = axis /\ e.gid = gid)}
        \cup {[axis |-> axis, gid |-> gid, scale |-> scaler]}

\* generic.CanOrderR(valType.Kind()): column a holds an orderable type,
\* column b does not.
CanOrderR(col) == col = "a"

RECURSIVE Discover(_, _)
\* The keys of the map vals in the order they were added: valInfo.index is
\* len(vals) at the time a value is first seen.
Discover(labels, seen) ==
    IF labels = <<>> THEN seen
    ELSE IF \E k \in 1..Len(seen) : seen[k] = Head(labels)
         THEN Discover(Tail(labels), seen)
         ELSE Discover(Tail(labels), Append(seen, Head(labels)))

\* "Collect grouped values" and "order and re-index values": the index of
\* every distinct value.
ValIndex(labels, orderable) ==
    LET disc == Discover(labels, <<>>)
        D == {disc[k] : k \in 1..Len(disc)}
    IN  [v \in D |->
            IF orderable
            THEN Cardinality({w \in D : w < v})
            ELSE (CHOOSE k \in 1..Len(disc) : disc[k] = v) - 1]

\* A buggy split that adds the value index to the parent's position without
\* scaling the parent's position by len(vals).
NewSubplotUnscaled(s, S, dir, k, idx, nband) ==
    IF dir = "x"
    THEN [parent |-> s, x |-> S.x + idx, y |-> S.y, vBand |-> nband, hBand |-> S.hBand]
    ELSE [parent |-> s, x |-> S.x, y |-> S.y + idx, vBand |-> S.vBand, hBand |-> nband]

\* A buggy split that moves the new subplot along the other axis.
NewSubplotOtherAxis(s, S, dir, k, idx, nband) ==
    IF dir = "y"
    THEN [parent |-> s, x |-> S.x * k + idx, y |-> S.y, vBand |-> nband, hBand |-> S.hBand]
    ELSE [parent |-> s, x |-> S.x, y |-> S.y * k + idx, vBand |-> S.vBand, hBand |-> nband]

\* ns := &subplot{...} for value index idx of the split of subplot s (= *S).
NewSubplot(s, S, dir, k, idx, nband) ==
    IF dir = "x"
    THEN [parent |-> s, x |-> S.x * k + idx, y |-> S.y, vBand |-> nband, hBand |-> S.hBand]
    ELSE [parent |-> s, x |-> S.x, y |-> S.y * k + idx, vBand |-> S.vBand, hBand |-> nband]

\* A lookup that never finds a band's split.
LookupBandsMiss(bandMap, band) == <<>>

\* bands[band]: the new bands of an old band, <<>> for nil.
LookupBands(bandMap, band) ==
    LET hit == {e \in bandMap : e.band = band}
    IN  IF hit = {} THEN <<>> ELSE (CHOOSE e \in hit : TRUE).nbands

\* subplots[sub]
LookupSubplots(subMap, sub) ==
    LET hit == {e \in subMap : e.sub = sub}
    IN  IF hit = {} THEN <<>> ELSE (CHOOSE e \in hit : TRUE).nsubplots

\* A buggy cache keyed by the old scale alone.
LookupScaleAnyBand(scaleMap, nband, scaler) ==
    LET hit == {e \in scaleMap : e.scaler = scaler}
    IN  IF hit = {} THEN 0 ELSE (CHOOSE e \in hit : TRUE).nscaler

\* scales[bandScale{nband, scaler}], 0 for nil.
LookupScale(scaleMap, nband, scaler) ==
    LET hit == {e \in scaleMap : e.band = nband /\ e.scaler = scaler}
    IN  IF hit = {} THEN 0 ELSE (CHOOSE e \in hit : TRUE).nscaler

\* "Split scales if requested", for one axis.
SplitScale(st, axis, gid, ngid, nband) ==
    LET scaler == GetScale(st.scales, st.nodes, axis, gid)
        cached == LookupScale(st.scaleMap, nband, scaler)
        nscaler == IF cached = 0 THEN Len(st.scaleObjs) + 1 ELSE cached
    IN  [st EXCEPT
            !.scaleObjs = IF cached = 0 THEN Append(@, scaler) ELSE @,
            !.scaleMap = IF cached = 0
                         THEN @ \cup {[band |-> nband, scaler |-> scaler,
                                       nscaler |-> nscaler]}
                         ELSE @,
            !.scales = SetScaleAt(@, axis, nscaler, ngid)]

\* The body of the loop over grouped.Tables(), for group i.
FacetStep(st, ctx, i) ==
    LET gid == ctx.grouped[i].gid
        sub == subplotOf(st.nodes, gid)
        S == Sub(st.subplots, sub)
        band == IF ctx.dir = "x" THEN S.vBand ELSE S.hBand
        oldnb == LookupBands(st.bandMap, band)
        nbands == IF oldnb = <<>>
                  THEN [j \in 1..ctx.k |-> Len(st.bands) + j]
                  ELSE oldnb
        bands1 == IF oldnb = <<>>
                  THEN st.bands \o [j \in 1..ctx.k |->
                                       [parent |-> band, label |-> ctx.vals[j]]]
                  ELSE st.bands
        bandMap1 == IF oldnb = <<>>
                    THEN st.bandMap \cup {[band |-> band, nbands |-> nbands]}
                    ELSE st.bandMap
        oldns == LookupSubplots(st.subMap, sub)
        nsubplots == IF oldns = <<>>
                     THEN [j \in 1..ctx.k |-> Len(st.subplots) + j]
                     ELSE oldns
        subplots1 == IF oldns = <<>>
                     THEN st.subplots \o [j \in 1..ctx.k |->
                              NewSubplot(sub, S, ctx.dir, ctx.k, j - 1, nbands[j])]
                     ELSE st.subplots
        subMap1 == IF oldns = <<>>
                   THEN st.subMap \cup {[sub |-> sub, nsubplots |-> nsubplots]}
                   ELSE st.subMap
        nsubplot == nsubplots[ctx.index[Label(st.nodes, gid).v] + 1]
        e == Extend(st.nodes, Parent(st.nodes, gid), SubLabel(nsubplot))
        ngid == e.gid
        nband == IF ctx.dir = "x"
                 THEN subplots1[nsubplot].vBand
                 ELSE subplots1[nsubplot].hBand
        st1 == [st EXCEPT !.nodes = e.nodes, !.subplots = subplots1,
                          !.bands = bands1, !.bandMap = bandMap1,
                          !.subMap = subMap1,
                          !.ndata = GBAdd(@, ngid, ctx.grouped[i].tab)]
        st2 == IF ctx.sx THEN SplitScale(st1, "x", gid, ngid, nband) ELSE st1
    IN  IF ctx.sy THEN SplitScale(st2, "y", gid, ngid, nband) ELSE st2

RECURSIVE FacetLoop(_, _, _)
FacetLoop(st, ctx, i) ==
    IF i > Len(ctx.grouped) THEN st ELSE FacetLoop(FacetStep(st, ctx, i), ctx, i + 1)

\* (*FacetCommon).apply after the GroupBy: r is table.GroupBy(p.Data(), f.Col).
FacetApply(r, subs, bnds, sobjs, scs, dir, col, sx, sy) ==
    LET labels == [i \in 1..Len(r.g) |-> Label(r.nodes, r.g[i].gid).v]
        index == ValIndex(labels, CanOrderR(col))
        k == Cardinality(DOMAIN index)
        ctx == [dir |-> dir, sx |-> sx, sy |-> sy, grouped |-> r.g,
                index |-> index, k |-> k,
                vals |-> [j \in 1..k |-> CHOOSE v \in DOMAIN index : index[v] = j - 1]]
        st == [nodes |-> r.nodes, subplots |-> subs, bands |-> bnds,
               scaleObjs |-> sobjs, scales |-> scs,
               bandMap |-> {}, subMap |-> {}, scaleMap |-> {}, ndata |-> <<>>]
    IN  FacetLoop(st, ctx, 1)

----------------------------------------------------------------------------
(* The facet specification: FacetX / FacetY applied to a Plot              *)

\* The Plot's tables: columns a, b, v, at most MaxFacetRows rows, no two rows
\* with the same (a, b) (equal rows only ever share a group).  The values of
\* b, which are compared for equality only, are numbered in the order of
\* their first occurrence.
FacetTables ==
    UNION {{t \in {<<ca, cb, SeqCol("v", RowIds(n))>> :
                      ca \in ColChoices("a", n, AVals),
                      cb \in ColChoices("b", n, BVals)} :
               /\ \A i, j \in 1..n :
                      i # j => <<Column(t, "a")[i], Column(t, "b")[i]>>
                                   # <<Column(t, "a")[j], Column(t, "b")[j]>>
               /\ Discover(Column(t, "b"), <<>>) \in {<<1>>, <<1, 2>>}} :
           n \in 1..MaxFacetRows}

FacetInit ==
    /\ nodes = <<>>
    /\ ret = RootGroupID
    /\ T0 \in FacetTables
    /\ grouping = RootGrouping(T0)
    /\ prev = <<>>
    /\ prevN = 0
    /\ hist = <<>>
    /\ flat = EmptyTable
    /\ FacetIdle

\* FacetX{Col, SplitXScales, SplitYScales}.Apply(p) for dir = "x",
\* FacetY{...}.Apply(p) for dir = "y".  With no group in the GroupBy result
\* valType stays nil and valType.Kind() panics.
Apply(dir, col, sx, sy) ==
    /\ Len(facets) < MaxFacets
    /\ \E r \in {GroupBy(nodes, grouping, <<col>>)} :
           /\ Len(r.g) > 0
           /\ \E st \in {FacetApply(r, subplots, bands, scaleObjs, scales,
                                     dir, col, sx, sy)} :
                  /\ nodes' = st.nodes
                  /\ grouping' = st.ndata
                  /\ subplots' = st.subplots
                  /\ bands' = st.bands
                  /\ scaleObjs' = st.scaleObjs
                  /\ scales' = st.scales
           /\ grouped' = r.g
    /\ facets' = Append(facets, [dir |-> dir, col |-> col, sx |-> sx, sy |-> sy])
    /\ pre' = [data |-> grouping, nNodes |-> Len(nodes), nSubs |-> Len(subplots),
               nBands |-> Len(bands), nScales |-> Len(scaleObjs), scales |-> scales]
    /\ UNCHANGED <<ret, T0, prev, prevN, hist, flat>>

FacetXApply == \E col \in {"a", "b"}, sx, sy \in BOOLEAN : Apply("x", col, sx, sy)

FacetYApply == \E col \in {"a", "b"}, sx, sy \in BOOLEAN : Apply("y", col, sx, sy)

\* Before any facet operation the caller may group the Plot's data:
\* p.SetData(table.GroupBy(p.Data(), col)).
PlotGroupBy ==
    /\ facets = <<>>
    /\ hist = <<>>
    /\ \E col \in {"a", "b"} :
          \E r \in {GroupBy(nodes, grouping, <<col>>)} :
              /\ nodes' = r.nodes
              /\ grouping' = r.g
              /\ hist' = <<IF col = "a" THEN "Ga" ELSE "Gb">>
    /\ prev' = grouping
    /\ prevN' = Len(nodes)
    /\ UNCHANGED <<ret, T0, flat, fvars>>

FacetNext == FacetXApply \/ FacetYApply \/ PlotGroupBy

SpecFacet == FacetInit /\ [][FacetNext]_vars

----------------------------------------------------------------------------
(* Properties of the facet layout                                          *)

LastFacet == facets[Len(facets)]

\* Group i of the last GroupBy: its owning subplot, its facet value, and the
\* subplot and band it was re-homed to (grouping[i] is its new group).
Owner(i) == subplotOf(nodes, grouped[i].gid)
FVal(i) == Label(nodes, grouped[i].gid).v
Home(i) == subplotOf(nodes, grouping[i].gid)
HomeSub(i) == Sub(subplots, Home(i))
OwnerSub(i) == Sub(subplots, Owner(i))

FVals == {FVal(i) : i \in 1..Len(grouped)}

AlongPos(S, dir) == IF dir = "x" THEN S.x ELSE S.y
AcrossPos(S, dir) == IF dir = "x" THEN S.y ELSE S.x
SplitBand(S, dir) == IF dir = "x" THEN S.vBand ELSE S.hBand
KeptBand(S, dir) == IF dir = "x" THEN S.hBand ELSE S.vBand

\* The index the last facet operation gives value v: its rank for the
\* orderable column a, its place in the order of discovery for column b.
ExpIndex(v) ==
    IF LastFacet.col = "a"
    THEN Cardinality({w \in FVals : w < v})
    ELSE (CHOOSE k \in 1..Cardinality(FVals) :
             FirstOcc([i \in 1..Len(grouped) |-> FVal(i)])[k] = v) - 1

\* The index of value v of column c among the values of c in the Plot's
\* table (for b, whose first row opens the first group of every GroupBy,
\* the order of discovery is the order of first occurrence in the table).
IndexOf(c, v) ==
    IF c = "a"
    THEN Cardinality({w \in Range(Column(T0, "a")) : w < v})
    ELSE (CHOOSE k \in 1..Len(FirstOcc(Column(T0, "b"))) :
             FirstOcc(Column(T0, "b"))[k] = v) - 1

ValOf(i, c) == ColOf(grouping[i].tab, c).val

DataSubplots == {subplotOf(nodes, grouping[i].gid) : i \in 1..Len(grouping)}

DataPositions == {<<Sub(subplots, s).x, Sub(subplots, s).y>> : s \in DataSubplots}

OrigScale(axis, i) == GetScale(pre.scales, nodes, axis, grouped[i].gid)
NowScale(axis, i) == GetScale(scales, nodes, axis, grouping[i].gid)

AfterX == Len(facets) = 1 /\ facets[1].dir = "x"
AfterXY == Len(facets) = 2 /\ facets[1].dir = "x" /\ facets[2].dir = "y"

\* FacetX then FacetY place every group at (index of its X value, index of
\* its Y value); two by two values with rows for every combination give the
\* four positions.
GridPositions ==
    /\ AfterX =>
          /\ \A i \in 1..Len(grouping) :
                /\ HomeSub(i).x = IndexOf(facets[1].col, ValOf(i, facets[1].col))
                /\ HomeSub(i).y = 0
          /\ Cardinality(FVals) = 2 =>
                /\ DataPositions = {<<0, 0>>, <<1, 0>>}
                /\ Cardinality(DataSubplots) = 2
    /\ AfterXY =>
          /\ \A i \in 1..Len(grouping) :
                /\ HomeSub(i).x = IndexOf(facets[1].col, ValOf(i, facets[1].col))
                /\ HomeSub(i).y = IndexOf(facets[2].col, ValOf(i, facets[2].col))
          /\ (/\ facets[1].col # facets[2].col
              /\ Cardinality({<<ValOf(i, "a"), ValOf(i, "b")>> :
                                 i \in 1..Len(grouping)}) = 4
              /\ Cardinality(Range(Column(T0, "a"))) = 2) =>
                /\ DataPositions = {<<0, 0>>, <<1, 0>>, <<0, 1>>, <<1, 1>>}
                /\ Cardinality(DataSubplots) = 4

\* C6 as stated: the grid positions, and the vertical band split only at the
\* FacetY step, when SplitYScales is set there (so not at the FacetX step).
C6_Original ==
    /\ GridPositions
    /\ AfterX => \A i \in 1..Len(grouping) : HomeSub(i).vBand = NilBand
    /\ AfterXY =>
          \A i \in 1..Len(grouping) :
              LastFacet.sy <=> HomeSub(i).vBand # OwnerSub(i).vBand

\* C6 amended: the grid positions as stated; the vertical band is split at
\* the FacetX step (one new vertical band per X value) and the horizontal
\* band at the FacetY step (one new horizontal band per Y value, the vertical
\* band kept), both whatever the split flags are; what happens at the FacetY
\* step only when SplitYScales is set there is the split of the Y scale.
C6_Amended ==
    /\ GridPositions
    /\ AfterX =>
          \A i \in 1..Len(grouping) :
              /\ HomeSub(i).vBand \in (pre.nBands + 1)..Len(bands)
              /\ bands[HomeSub(i).vBand] =
                     [parent |-> NilBand, label |-> ValOf(i, facets[1].col)]
              /\ HomeSub(i).hBand = NilBand
              /\ \A j \in 1..Len(grouping) :
                    HomeSub(i).vBand = HomeSub(j).vBand <=> HomeSub(i).x = HomeSub(j).x
    /\ AfterXY =>
          \A i \in 1..Len(grouping) :
              /\ HomeSub(i).vBand = OwnerSub(i).vBand
              /\ HomeSub(i).vBand # NilBand
              /\ HomeSub(i).hBand \in (pre.nBands + 1)..Len(bands)
              /\ bands[HomeSub(i).hBand] =
                     [parent |-> NilBand, label |-> ValOf(i, facets[2].col)]
              /\ \A j \in 1..Len(grouping) :
                    HomeSub(i).hBand = HomeSub(j).hBand <=> HomeSub(i).y = HomeSub(j).y
              /\ LastFacet.sy <=> NowScale("y", i) # OrigScale("y", i)

C6_Witness ==
    /\ AfterXY
    /\ hist = <<>>
    /\ facets[1].col = "a" /\ facets[2].col = "b"
    /\ ~facets[1].sy /\ facets[2].sy
    /\ Len(grouping) = 4
    /\ DataPositions = {<<0, 0>>, <<1, 0>>, <<0, 1>>, <<1, 1>>}


Flag(axis) == IF axis = "x" THEN LastFacet.sx ELSE LastFacet.sy

\* The Scaler objects cloned by the last facet operation.
Clones == (pre.nScales + 1)..Len(scaleObjs)

RECURSIVE AxisOfScale(_)
\* The axis a Scaler serves: 1 is the Plot's x scale, 2 its y scale, a clone
\* serves the axis of the Scaler it was cloned from.
AxisOfScale(sc) ==
    IF sc = 1 THEN "x" ELSE IF sc = 2 THEN "y" ELSE AxisOfScale(scaleObjs[sc])

AxisClones(axis) == {c \in Clones : AxisOfScale(c) = axis}

\* With the flag of an axis false the facet operation clones and assigns no
\* scale of that axis: every new group resolves to its original Scaler.
ScalesKept(axis) ==
    ~Flag(axis) =>
        /\ {e \in scales : e.axis = axis} = {e \in pre.scales : e.axis = axis}
        /\ AxisClones(axis) = {}
        /\ \A i \in 1..Len(grouping) : NowScale(axis, i) = OrigScale(axis, i)

\* With the flag true every new group is assigned a clone of its original
\* Scaler, and two groups the same clone exactly when they are in the same
\* new band and had the same original Scaler.
ScalesSplit(axis) ==
    Flag(axis) =>
        \A i \in 1..Len(grouping) :
            /\ [axis |-> axis, gid |-> grouping[i].gid, scale |-> NowScale(axis, i)]
                   \in scales
            /\ NowScale(axis, i) \in Clones
            /\ scaleObjs[NowScale(axis, i)] = OrigScale(axis, i)
            /\ \A j \in 1..Len(grouping) :
                  NowScale(axis, i) = NowScale(axis, j) <=>
                      /\ SplitBand(HomeSub(i), LastFacet.dir)
                             = SplitBand(HomeSub(j), LastFacet.dir)
                      /\ OrigScale(axis, i) = OrigScale(axis, j)

\* A facet of 3 values over one original Scaler of the axis.
ThreeOverOne(axis) ==
    /\ Flag(axis)
    /\ Cardinality(FVals) = 3
    /\ Cardinality({OrigScale(axis, i) : i \in 1..Len(grouping)}) = 1

\* Exactly 3 clones, one per value, none of them the original.
ThreeClones(axis) ==
    /\ Cardinality(AxisClones(axis)) = 3
    /\ \A i, j \in 1..Len(grouping) :
          NowScale(axis, i) = NowScale(axis, j) <=> FVal(i) = FVal(j)
    /\ \A i, j \in 1..Len(grouping) : NowScale(axis, i) # OrigScale(axis, j)

\* The groups of the last facet operation all come from one old band.
OneOldBand ==
    Cardinality({SplitBand(OwnerSub(i), LastFacet.dir) : i \in 1..Len(grouping)}) = 1

Created == (pre.nSubs + 1)..Len(subplots)

Owners == {Owner(i) : i \in 1..Len(grouped)}

\* C9: one facet application with k distinct values splits every owning
\* subplot it meets once, into k children, one per value index 0..k-1, at
\* parent.pos * k + index along the faceted axis, with the parent's position
\* and band across it; a group is re-homed, under its pre-GroupBy parent
\* GroupID, to the child of its owner for its value, so two groups share a
\* child exactly when they share owner and value.
C9_SplitPerOwner ==
    facets # <<>> =>
        LET k == Cardinality(FVals)
            dir == LastFacet.dir
        IN  /\ Len(grouping) = Len(grouped)
            /\ Cardinality(Created) = k * Cardinality(Owners)
            /\ \A o \in Owners :
                  LET ch == {s \in Created : subplots[s].parent = o}
                      O == Sub(subplots, o)
                  IN  /\ Cardinality(ch) = k
                      /\ {AlongPos(subplots[s], dir) : s \in ch}
                             = {AlongPos(O, dir) * k + j : j \in 0..(k - 1)}
                      /\ \A s \in ch :
                            /\ AcrossPos(subplots[s], dir) = AcrossPos(O, dir)
                            /\ KeptBand(subplots[s], dir) = KeptBand(O, dir)
            /\ \A i \in 1..Len(grouping) :
                  /\ Home(i) \in Created
                  /\ subplots[Home(i)].parent = Owner(i)
                  /\ AlongPos(HomeSub(i), dir)
                         = AlongPos(OwnerSub(i), dir) * k + ExpIndex(FVal(i))
                  /\ Label(nodes, grouping[i].gid) = SubLabel(Home(i))
                  /\ Parent(nodes, grouping[i].gid) = Parent(nodes, grouped[i].gid)
                  /\ \E j \in 1..Len(pre.data) :
                        pre.data[j].gid = Parent(nodes, grouping[i].gid)
                  /\ \A j \in 1..Len(grouping) :
                        Home(i) = Home(j) <=> (Owner(i) = Owner(j) /\ FVal(i) = FVal(j))

C9_Witness ==
    /\ Len(facets) = 2
    /\ hist # <<>>
    /\ Cardinality(FVals) = 2
    /\ Cardinality(Owners) = 2
    /\ \E o \in Owners : Cardinality({FVal(i) : i \in {j \in 1..Len(grouped) : Owner(j) = o}}) = 1
    /\ \E i, j \in 1..Len(grouping) : i # j /\ Home(i) = Home(j)
    /\ \E i \in 1..Len(grouping) : OwnerSub(i).x = 1 /\ HomeSub(i).x = 3

\* C10: after any sequence of FacetX and FacetY applications the subplots
\* that own the Plot's groups have pairwise different (x, y), the same
\* vertical band when they have the same x, and the same horizontal band
\* when they have the same y.
C10_GridConsistent ==
    \A s, t \in DataSubplots :
        LET S == Sub(subplots, s)
            U == Sub(subplots, t)
        IN  /\ s # t => <<S.x, S.y>> # <<U.x, U.y>>
            /\ S.x = U.x => S.vBand = U.vBand
            /\ S.y = U.y => S.hBand = U.hBand

C10_Witness ==
    /\ Len(facets) = 2
    /\ facets[1].dir = "y" /\ facets[2].dir = "x"
    /\ Cardinality(DataSubplots) = 4
    /\ \E s, t \in DataSubplots :
          /\ s # t
          /\ subplots[s].x = subplots[t].x
          /\ subplots[s].y # subplots[t].y
          /\ subplots[s].vBand = subplots[t].vBand
          /\ subplots[s].parent # subplots[t].parent

====
